---- MODULE Spec2Model ----
(***************************************************************************)
(* Model of the GitHub command-line tools of YurkoHoshko/piano:            *)
(*   .agents/github-tools/repo_prs.py      (commits and pull requests)     *)
(*   .agents/github-tools/starred_repos.py (starred repositories)          *)
(* A run is a sequential process; every HTTP request is one step whose     *)
(* outcome (a page of the remote collection, or a failure) is chosen by    *)
(* the environment.                                                        *)
(***************************************************************************)
EXTENDS Integers, Sequences, FiniteSets, TLC

VARIABLES
    prog,            \* entry point that was started
    pc,              \* position of the process
    cli,             \* command-line arguments as given
    since_date,      \* main's since_date (repo_prs.py:260, rebound at 290)
    fn_since_date,   \* fetch_commits_since's since_date (rebound at 63)
    page,            \* page counter of the running loop
    commits,         \* accumulated / input commit records
    prs,             \* pull requests accumulated by the listing loop
    pr_idx,          \* position in prs of the loop that asks for each one's commits
    pr_commits_map,  \* dict pr_number -> {pr, matching_commits}, insertion order
    result_prs,      \* list returned by fetch_prs_with_commits
    repos,           \* starred repositories accumulated
    gh_commits,      \* remote: commit history of the repository
    gh_prs,          \* remote: pull requests, each with its commits response
    gh_starred,      \* remote: starred repositories of the user
    pages,           \* history: the pages each loop received, in order
    log,             \* history: every request issued, with its response status
    stderr,          \* messages written to standard error
    stdout,          \* records written to standard output
    exit_code        \* exit status once the process has ended

vars == <<prog, pc, cli, since_date, fn_since_date, page, commits, prs, pr_idx,
          pr_commits_map, result_prs, repos, gh_commits, gh_prs, gh_starred,
          pages, log, stderr, stdout, exit_code>>

----------------------------------------------------------------------------
(* Bounds of the model *)

\* number of full pages a remote collection may hold
MaxFullPages == 1
\* number of items a remote collection may hold beyond its full pages
MaxExtra == 2
\* number of pull requests in a freely chosen (small) remote population met
\* by a direct call of fetch_prs_with_commits
MaxPRs == 2
\* the same, met by a whole run
MaxRunPRs == 3

----------------------------------------------------------------------------
(* Values *)

\* Python None, and a present optional value
None == <<>>
Some(v) == <<v>>

\* per_page = 100 in all three loops
per_page == 100

\* the empty string of x.get("updated_at", ""); timestamps are ranked by
\* their lexicographic order, the empty string below every timestamp
EmptyStr == 0

Range(s) == {s[i] : i \in 1..Len(s)}

RECURSIVE Flatten(_)
Flatten(ss) ==
    IF ss = <<>> THEN <<>> ELSE Head(ss) \o Flatten(Tail(ss))

\* response status of a request: 200, an HTTP error status, or 0 when the
\* transport failed and there is no response at all
OK == 200
ErrorStatuses == {0, 403, 404, 500}

Repo == "octo/piano"
User == "octocat"

----------------------------------------------------------------------------
(* The remote side: what GitHub holds and answers *)

Min(a, b) == IF a < b THEN a ELSE b

\* sizes a paginated remote collection may have: less than a page, whole
\* pages only, and whole pages followed by a short page
Counts ==
    (0..MaxExtra) \cup {k * per_page : k \in 1..MaxFullPages}
                  \cup {MaxFullPages * per_page + 1}

\* the page-th page of a collection, as the API cuts it
PageOf(coll, p) == SubSeq(coll, (p - 1) * per_page + 1, Min(p * per_page, Len(coll)))

\* one item of GET /repos/{repo}/commits: every second commit has no linked
\* GitHub account, so "author" is null there
RawCommit(i) ==
    [sha |-> i,
     author |-> IF i % 2 = 1 THEN Some("octocat") ELSE None,
     commit_author_name |-> "Mona"]

CommitHistories == {[i \in 1..n |-> RawCommit(i)] : n \in Counts}

\* committer dates GET /repos/{repo}/commits/{sha} may return (None: no date)
LookupDates == {None, Some("2024-03-01T12:00:00Z"), Some("2023-11-20T08:30:00Z")}

\* a remote pull request: its listing fields and the answer to
\* GET /repos/{repo}/pulls/{number}/commits (a failed request carries no list)
RemotePR(n, u, r) ==
    [number |-> n, updated_at |-> u, status |-> r.status, shas |-> r.shas]

PRCommitsResponses(lists) ==
    {[status |-> OK, shas |-> l] : l \in lists} \cup {[status |-> 403, shas |-> <<>>]}

SmallPRPopulations(max, us, rs) ==
    UNION {{[i \in 1..n |-> RemotePR(i, f[i][1], f[i][2])] : f \in [1..n -> us \X rs]}
             : n \in 0..max}

\* populations that fill whole pages: pull request i holds commit i
LargePRPopulations ==
    {[i \in 1..n |-> RemotePR(i, Some(1 + (i % 2)), [status |-> OK, shas |-> <<i>>])]
       : n \in {c \in Counts : c >= per_page}}

\* a whole run meets a narrower choice of small populations than a direct
\* call of fetch_prs_with_commits
PRPopulations(p) ==
    LargePRPopulations \cup
    IF p = "fetch_prs_with_commits"
      THEN SmallPRPopulations(MaxPRs, {None, Some(1), Some(2)},
                              PRCommitsResponses({<<>>, <<1>>, <<2>>, <<1, 2>>}))
      ELSE SmallPRPopulations(MaxRunPRs, {None, Some(1)},
                              PRCommitsResponses({<<2>>}))

\* one item of GET /repos/{repo}/pulls
PRItem(r) == [number |-> r.number, updated_at |-> r.updated_at]

PRItems(rs) == [i \in 1..Len(rs) |-> PRItem(rs[i])]

\* one item of GET /users/{username}/starred
RawRepo(i) == [name |-> i, owner |-> [login |-> "octo"], stargazers_count |-> i]

StarredLists == {[i \in 1..n |-> RawRepo(i)] : n \in Counts}

\* a request as the history records it: endpoint, page or pull-request number
\* asked for, the since parameter sent, the response status, and the
\* committer date a commit lookup answered
Request(ep, p, n, since, status, date) ==
    [endpoint |-> ep, page |-> p, number |-> n, since |-> since, status |-> status,
     date |-> date]

----------------------------------------------------------------------------
(* repo_prs.py: pure parts *)

\* truth value of an Optional[str]
Truthy(opt) == opt # None /\ opt # Some("")

\* date_parser.parse(s).isoformat(); raises ValueError outside the table
ValidDates == {"2024-01-15", "2024-03-01T12:00:00Z"}

IsoFormat(s) ==
    CASE s = "2024-01-15" -> "2024-01-15T00:00:00"
      [] s = "2024-03-01T12:00:00Z" -> "2024-03-01T12:00:00+00:00"

\* a variant that sends "since" with the first page only
CommitsParams_FirstPageOnly(p, sd) ==
    [page |-> p, per_page |-> per_page, sha |-> "HEAD",
     since |-> IF Truthy(sd) /\ p = 1 THEN sd ELSE None]

\* params of the commits listing request: "since" only when since_date is truthy
CommitsParams(p, sd) ==
    [page |-> p, per_page |-> per_page, sha |-> "HEAD",
     since |-> IF Truthy(sd) THEN sd ELSE None]

\* the dict appended for one commit: login when the commit has a linked
\* account, else the raw author name
CommitRecord(c) ==
    [sha |-> c.sha,
     author |-> IF c.author # None THEN c.author[1] ELSE c.commit_author_name]

CommitRecords(data) == [i \in 1..Len(data) |-> CommitRecord(data[i])]

\* a variant that also stops on a full page
IsLastPage_AtMost(data) == Len(data) <= per_page

\* len(data) < per_page
IsLastPage(data) == Len(data) < per_page

\* bool(response): None when requests.get raised, else Response.ok
ResponseTruthy(status) == status # 0 /\ status < 400

\* the except clauses of the commits loop; status 0 is a RequestException
\* that is no HTTPError
CommitsErrorMessage(status) ==
    IF status = 0 THEN "FetchCommitsFailed"
    ELSE IF ResponseTruthy(status) /\ status = 404 THEN "RepositoryNotFound"
    ELSE IF ResponseTruthy(status) /\ status = 403 THEN "RateLimit"
    ELSE "HTTP"

\* a variant that keeps every commit of the pull request
MatchingCommits_NoFilter(pr_commit_list, commit_shas) == pr_commit_list

\* matching_commits of one pull request
MatchingCommits(pr_commit_list, commit_shas) ==
    SelectSeq(pr_commit_list, LAMBDA sha : sha \in commit_shas)

\* pr_commits_map[k] = v on an insertion-ordered dict
DictPut(map, k, v) ==
    IF \E i \in 1..Len(map) : map[i].key = k
      THEN [i \in 1..Len(map) |-> IF map[i].key = k THEN [key |-> k, value |-> v] ELSE map[i]]
      ELSE Append(map, [key |-> k, value |-> v])

\* one iteration of the loop over prs: the pull request's commits are asked
\* for; a failed request is skipped, a match is stored under the number
MatchPR(pr, remote, commit_shas, map) ==
    LET resp == remote[pr.number]
        matching_commits == MatchingCommits(resp.shas, commit_shas)
    IN  IF resp.status = OK /\ matching_commits # <<>>
          THEN DictPut(map, pr.number, [pr |-> pr, matching_commits |-> matching_commits])
          ELSE map

\* a variant that attaches every input commit
AssociatedCommits_All(cs, pr_commits) == cs

\* associated_commits = [c for c in commits if c["sha"] in pr_commits]
AssociatedCommits(cs, pr_commits) ==
    SelectSeq(cs, LAMBDA c : c.sha \in Range(pr_commits))

\* the result dict of one matched pull request
ResultPR(pr, associated_commits) ==
    [number |-> pr.number,
     updated_at |-> pr.updated_at,
     commits_count |-> Len(associated_commits),
     commits |-> associated_commits]

BuildResult(map, cs) ==
    [i \in 1..Len(map) |->
        ResultPR(map[i].value.pr, AssociatedCommits(cs, map[i].value.matching_commits))]

\* dict.get(key, default) on a dict
DictGet(has_key, value, default) == IF has_key THEN value ELSE default

\* the sort key: x.get("updated_at", ""); every result dict has the key
SortKey(x) == DictGet(TRUE, x.updated_at, Some(EmptyStr))

\* comparing None with anything is a TypeError; a list of one is never compared
SortRaises(list) ==
    Len(list) >= 2 /\ \E i \in 1..Len(list) : SortKey(list[i]) = None

\* list.sort(key=..., reverse=True): stable, descending
RECURSIVE SortByKeysDesc(_, _)
SortByKeysDesc(list, keys) ==
    IF keys = {} THEN <<>>
    ELSE LET m == CHOOSE k \in keys : \A o \in keys : o[1] <= k[1]
         IN  SelectSeq(list, LAMBDA x : SortKey(x) = m) \o SortByKeysDesc(list, keys \ {m})

SortDesc(list) ==
    IF Len(list) < 2 THEN list
    ELSE SortByKeysDesc(list, {SortKey(list[i]) : i \in 1..Len(list)})

\* a variant that fills since_date from the since-commit argument
Output_SinceFromCommit(sd, sc, cs, ps) ==
    [repository |-> Repo,
     since_date |-> sc,
     since_commit |-> sc,
     total_commits |-> Len(cs),
     total_prs |-> Len(ps),
     commits |-> cs,
     pull_requests |-> ps]

\* the record main prints
Output(sd, sc, cs, ps) ==
    [repository |-> Repo,
     since_date |-> sd,
     since_commit |-> sc,
     total_commits |-> Len(cs),
     total_prs |-> Len(ps),
     commits |-> cs,
     pull_requests |-> ps]

\* a variant that tests for None only
NoCommits_IsNone(cs) == FALSE

\* "if not commits"
NoCommits(cs) == cs = <<>>

\* the record main prints when no commit was found
EmptyOutput(sd, sc) ==
    [repository |-> Repo,
     since_date |-> sd,
     since_commit |-> sc,
     total_commits |-> 0,
     total_prs |-> 0,
     commits |-> <<>>,
     pull_requests |-> <<>>]

----------------------------------------------------------------------------
(* starred_repos.py: pure parts *)

\* the dict appended for one starred repository
RepoRecord(r) == [name |-> r.name, owner |-> r.owner.login, stars |-> r.stargazers_count]

RepoRecords(data) == [i \in 1..Len(data) |-> RepoRecord(data[i])]

\* the except clauses of the starred loop; status 0 is a URLError
StarredErrorMessage(status) ==
    IF status = 0 THEN "FetchDataFailed"
    ELSE IF status = 404 THEN "UserNotFound"
    ELSE IF status = 403 THEN "RateLimit"
    ELSE "HTTP"

\* the record starred_repos.py prints
StarredOutput(rs) == [username |-> User, total_count |-> Len(rs), repositories |-> rs]

----------------------------------------------------------------------------
(* Initial states *)

NoArgs == [since_date |-> None, since_commit |-> None, include_prs |-> TRUE]

CliArgs ==
    [since_date : {None, Some("2024-01-15"), Some("not-a-date")},
     since_commit : {None, Some("abc1234")},
     include_prs : BOOLEAN]

\* commit lists handed to a direct call of fetch_prs_with_commits: records
\* as fetch_commits_since builds them, every sha once
CommitInputs ==
    {CommitRecords([i \in 1..Len(l) |-> RawCommit(l[i])])
       : l \in {<<>>, <<1>>, <<2>>, <<1, 2>>, <<2, 1>>}}

InitCommon ==
    /\ page = 1
    /\ prs = <<>>
    /\ pr_idx = 1
    /\ pr_commits_map = <<>>
    /\ result_prs = <<>>
    /\ repos = <<>>
    /\ gh_commits = <<>>
    /\ gh_prs = <<>>
    /\ gh_starred = <<>>
    /\ pages = [commits |-> <<>>, prs |-> <<>>, starred |-> <<>>]
    /\ log = <<>>
    /\ stderr = <<>>
    /\ stdout = <<>>
    /\ exit_code = 0

\* a run of repo_prs.py or of starred_repos.py
Init ==
    /\ InitCommon
    /\ commits = <<>>
    /\ \/ /\ prog = "repo_prs"
          /\ pc = "main"
          /\ cli \in CliArgs
          /\ since_date = cli.since_date
          /\ fn_since_date = None
       \/ /\ prog = "starred_repos"
          /\ pc = "starred_page"
          /\ cli = NoArgs
          /\ since_date = None
          /\ fn_since_date = None

\* a direct call of fetch_prs_with_commits(repo, commits)
InitPRs ==
    /\ InitCommon
    /\ prog = "fetch_prs_with_commits"
    /\ pc = "prs_page"
    /\ cli = NoArgs
    /\ since_date = None
    /\ fn_since_date = None
    /\ commits \in CommitInputs

----------------------------------------------------------------------------
(* repo_prs.py: steps *)

\* print(..., file=sys.stderr); sys.exit(1)
Die(msg) ==
    /\ pc' = "exit"
    /\ exit_code' = 1
    /\ stderr' = Append(stderr, msg)

\* main up to the call of fetch_commits_since, and the head of that function
Main ==
    /\ prog = "repo_prs"
    /\ pc = "main"
    /\ IF ~Truthy(since_date) /\ ~Truthy(cli.since_commit)
         THEN /\ Die("MustProvideSince")
              /\ UNCHANGED <<since_date, fn_since_date>>
         ELSE IF Truthy(since_date) /\ since_date[1] \notin ValidDates
         THEN /\ Die("InvalidDateFormat")
              /\ UNCHANGED <<since_date, fn_since_date>>
         ELSE LET sd == IF Truthy(since_date) THEN Some(IsoFormat(since_date[1]))
                                              ELSE since_date
              IN  /\ since_date' = sd
                  /\ fn_since_date' = sd
                  /\ stderr' = Append(stderr, "FetchingCommits")
                  /\ pc' = IF Truthy(cli.since_commit) /\ ~Truthy(sd)
                             THEN "lookup" ELSE "commits_page"
                  /\ UNCHANGED exit_code
    /\ UNCHANGED <<prog, cli, pr_idx, page, commits, prs, pr_commits_map, result_prs, repos,
                   gh_commits, gh_prs, gh_starred, pages, log, stdout>>

\* the lookup of the since-commit's committer date
LookupCommit ==
    /\ pc = "lookup"
    /\ \/ \E date \in LookupDates :
            /\ fn_since_date' = date
            /\ log' = Append(log, Request("commit", 0, 0, None, OK, date))
            /\ pc' = "commits_page"
            /\ UNCHANGED <<stderr, exit_code>>
       \/ \E status \in ErrorStatuses :
            /\ log' = Append(log, Request("commit", 0, 0, None, status, None))
            /\ Die("FetchCommitFailed")
            /\ UNCHANGED fn_since_date
    /\ UNCHANGED <<prog, cli, pr_idx, since_date, page, commits, prs, pr_commits_map, result_prs,
                   repos, gh_commits, gh_prs, gh_starred, pages, stdout>>

\* one iteration of the commits loop
FetchCommitsPage ==
    /\ pc = "commits_page"
    /\ LET params == CommitsParams(page, fn_since_date) IN
       \/ \E remote \in (IF page = 1 THEN CommitHistories ELSE {gh_commits}) :
            LET data == PageOf(remote, page) IN
            /\ gh_commits' = remote
            /\ log' = Append(log, Request("commits", params.page, 0, params.since, OK, None))
            /\ pages' = [pages EXCEPT !.commits = Append(@, data)]
            /\ commits' = commits \o CommitRecords(data)
            /\ IF data = <<>> \/ IsLastPage(data)
                 THEN pc' = "commits_returned" /\ page' = page
                 ELSE pc' = pc /\ page' = page + 1
            /\ UNCHANGED <<stderr, exit_code>>
       \/ \E status \in ErrorStatuses :
            /\ log' = Append(log, Request("commits", params.page, 0, params.since, status, None))
            /\ Die(CommitsErrorMessage(status))
            /\ UNCHANGED <<gh_commits, pages, commits, page>>
    /\ UNCHANGED <<prog, cli, pr_idx, since_date, fn_since_date, prs, pr_commits_map, result_prs,
                   repos, gh_prs, gh_starred, stdout>>

\* main after fetch_commits_since returned
MainAfterCommits ==
    /\ pc = "commits_returned"
    /\ IF NoCommits(commits)
         THEN /\ stdout' = Append(stdout, EmptyOutput(since_date, cli.since_commit))
              /\ stderr' = Append(stderr, "NoCommitsFound")
              /\ pc' = "done"
              /\ UNCHANGED page
         ELSE IF cli.include_prs
         THEN /\ stderr' = Append(stderr, "FetchingAssociatedPRs")
              /\ pc' = "prs_page"
              /\ page' = 1
              /\ UNCHANGED stdout
         ELSE /\ stdout' = Append(stdout, Output(since_date, cli.since_commit, commits, <<>>))
              /\ pc' = "done"
              /\ UNCHANGED <<page, stderr>>
    /\ UNCHANGED <<prog, cli, pr_idx, since_date, fn_since_date, commits, prs, pr_commits_map,
                   result_prs, repos, gh_commits, gh_prs, gh_starred, pages, log, exit_code>>

\* one iteration of the pull-requests listing loop
ListPRsPage ==
    /\ pc = "prs_page"
    /\ \/ \E remote \in (IF page = 1 THEN PRPopulations(prog) ELSE {gh_prs}) :
            LET data == PRItems(PageOf(remote, page)) IN
            /\ gh_prs' = remote
            /\ log' = Append(log, Request("pulls", page, 0, None, OK, None))
            /\ pages' = [pages EXCEPT !.prs = Append(@, data)]
            /\ prs' = prs \o data
            /\ IF data = <<>> \/ IsLastPage(data)
                 THEN pc' = "pr_commits" /\ page' = page
                 ELSE pc' = pc /\ page' = page + 1
            /\ UNCHANGED stderr
       \/ \E status \in ErrorStatuses :
            /\ log' = Append(log, Request("pulls", page, 0, None, status, None))
            /\ stderr' = Append(stderr, "WarningFetchPRsFailed")
            /\ pc' = "pr_commits"
            /\ UNCHANGED <<gh_prs, pages, prs, page>>
    /\ UNCHANGED <<prog, cli, pr_idx, since_date, fn_since_date, commits, pr_commits_map,
                   result_prs, repos, gh_commits, gh_starred, stdout, exit_code>>

\* one iteration of the loop over prs: the request for the commits of the
\* next listed pull request, and what is done with its answer
MatchPRCommits ==
    /\ pc = "pr_commits"
    /\ pr_idx <= Len(prs)
    /\ pr_commits_map' = MatchPR(prs[pr_idx], gh_prs, {c.sha : c \in Range(commits)},
                                 pr_commits_map)
    /\ log' = Append(log, Request("pr_commits", 0, prs[pr_idx].number, None,
                                  gh_prs[prs[pr_idx].number].status, None))
    /\ pr_idx' = pr_idx + 1
    /\ UNCHANGED <<prog, pc, cli, since_date, fn_since_date, page, commits, prs, result_prs,
                   repos, gh_commits, gh_prs, gh_starred, pages, stderr, stdout, exit_code>>

\* after the loop: building and sorting the result; a TypeError of the sort
\* is caught nowhere
BuildAndSort ==
    /\ pc = "pr_commits"
    /\ pr_idx > Len(prs)
    /\ LET built == BuildResult(pr_commits_map, commits) IN
       IF SortRaises(built)
         THEN /\ Die("TypeError")
              /\ UNCHANGED result_prs
         ELSE /\ result_prs' = SortDesc(built)
              /\ pc' = "prs_returned"
              /\ UNCHANGED <<stderr, exit_code>>
    /\ UNCHANGED <<prog, cli, pr_idx, since_date, fn_since_date, page, commits, prs,
                   pr_commits_map, repos, gh_commits, gh_prs, gh_starred, pages, log, stdout>>

\* main after fetch_prs_with_commits returned
MainOutput ==
    /\ prog = "repo_prs"
    /\ pc = "prs_returned"
    /\ stdout' = Append(stdout, Output(since_date, cli.since_commit, commits, result_prs))
    /\ pc' = "done"
    /\ UNCHANGED <<prog, cli, pr_idx, since_date, fn_since_date, page, commits, prs, pr_commits_map,
                   result_prs, repos, gh_commits, gh_prs, gh_starred, pages, log, stderr,
                   exit_code>>

----------------------------------------------------------------------------
(* starred_repos.py: steps *)

\* one iteration of the starred loop
FetchStarredPage ==
    /\ pc = "starred_page"
    /\ \/ \E remote \in (IF page = 1 THEN StarredLists ELSE {gh_starred}) :
            LET data == PageOf(remote, page) IN
            /\ gh_starred' = remote
            /\ log' = Append(log, Request("starred", page, 0, None, OK, None))
            /\ pages' = [pages EXCEPT !.starred = Append(@, data)]
            /\ repos' = repos \o RepoRecords(data)
            /\ IF data = <<>> \/ IsLastPage(data)
                 THEN pc' = "starred_returned" /\ page' = page
                 ELSE pc' = pc /\ page' = page + 1
            /\ UNCHANGED <<stderr, exit_code>>
       \/ \E status \in ErrorStatuses :
            /\ log' = Append(log, Request("starred", page, 0, None, status, None))
            /\ Die(StarredErrorMessage(status))
            /\ UNCHANGED <<gh_starred, pages, repos, page>>
    /\ UNCHANGED <<prog, cli, pr_idx, since_date, fn_since_date, commits, prs, pr_commits_map,
                   result_prs, gh_commits, gh_prs, stdout>>

\* main of starred_repos.py after fetch_starred_repos returned
StarredMain ==
    /\ pc = "starred_returned"
    /\ stdout' = Append(stdout, StarredOutput(repos))
    /\ pc' = "done"
    /\ UNCHANGED <<prog, cli, pr_idx, since_date, fn_since_date, page, commits, prs, pr_commits_map,
                   result_prs, repos, gh_commits, gh_prs, gh_starred, pages, log, stderr,
                   exit_code>>

----------------------------------------------------------------------------
(* Specifications *)

Next ==
    \/ Main
    \/ LookupCommit
    \/ FetchCommitsPage
    \/ MainAfterCommits
    \/ ListPRsPage
    \/ MatchPRCommits
    \/ BuildAndSort
    \/ MainOutput
    \/ FetchStarredPage
    \/ StarredMain

Spec == Init /\ [][Next]_vars

NextPRs ==
    \/ ListPRsPage
    \/ MatchPRCommits
    \/ BuildAndSort

SpecPRs == InitPRs /\ [][NextPRs]_vars

----------------------------------------------------------------------------
(* Properties *)

CommitShas == {c.sha : c \in Range(commits)}

\* the requests sent to one endpoint, in order
EndpointLog(ep) == SelectSeq(log, LAMBDA r : r.endpoint = ep)

LastOf(l) == l[Len(l)]

InResult(n) == \E j \in 1..Len(result_prs) : result_prs[j].number = n

\* the commit shas the commits request of pull request n answered
PRShas(n) == Range(gh_prs[n].shas)

\* C1: a listed pull request is in the list fetch_prs_with_commits returns
\* exactly when the commit shas its commits request answered meet the shas
\* of the input commits; nothing else is in that list.
C1_AppearsIffIntersects ==
    pc = "prs_returned" =>
        /\ \A i \in 1..Len(prs) :
              InResult(prs[i].number) <=> (PRShas(prs[i].number) \cap CommitShas # {})
        /\ \A j \in 1..Len(result_prs) :
              \E i \in 1..Len(prs) : prs[i].number = result_prs[j].number

\* a call that returned one pull request and left out another one whose
\* commits are all outside the input
C1_Witness ==
    /\ prog = "fetch_prs_with_commits"
    /\ pc = "prs_returned"
    /\ Len(result_prs) = 1
    /\ \E i \in 1..Len(prs) :
          /\ ~InResult(prs[i].number)
          /\ PRShas(prs[i].number) # {}
          /\ PRShas(prs[i].number) \cap CommitShas = {}

\* C2: every returned pull request counts the shas it shares with the input
\* and carries exactly the input commit records with those shas, in input
\* order.
C2_CountAndSubset ==
    pc = "prs_returned" =>
        \A j \in 1..Len(result_prs) :
            LET shared == PRShas(result_prs[j].number) \cap CommitShas IN
            /\ result_prs[j].commits_count = Cardinality(shared)
            /\ result_prs[j].commits = SelectSeq(commits, LAMBDA c : c.sha \in shared)

\* a call with two input commits that returned a pull request holding one
\* of them and a pull request holding both
C2_Witness ==
    /\ prog = "fetch_prs_with_commits"
    /\ pc = "prs_returned"
    /\ Len(commits) = 2
    /\ \E j \in 1..Len(result_prs) : result_prs[j].commits_count = 1
    /\ \E j \in 1..Len(result_prs) : result_prs[j].commits_count = 2

\* the rank a pull request sorts by when a missing timestamp counts as ""
RankOf(x) == IF x.updated_at = None THEN EmptyStr ELSE x.updated_at[1]

\* C3: the sort completes on every input, and the returned list descends by
\* updated_at with the pull requests lacking a timestamp last.
C3_SortedMissingLast ==
    /\ "TypeError" \notin Range(stderr)
    /\ pc = "prs_returned" =>
          \A a \in 1..Len(result_prs) : \A b \in a..Len(result_prs) :
              RankOf(result_prs[a]) >= RankOf(result_prs[b])

\* C4: a 404 on a commits listing page ends the run with exit code 1, the
\* "repository not found" message and no JSON on standard output.
C4_NotFoundReported ==
    (\E i \in 1..Len(log) : log[i].endpoint = "commits" /\ log[i].status = 404) =>
        /\ pc = "exit"
        /\ exit_code = 1
        /\ "RepositoryNotFound" \in Range(stderr)
        /\ stdout = <<>>

\* C5: a 403 on any request ends the run with exit code 1 and the rate-limit
\* message that suggests a token.
C5_RateLimitReported ==
    (\E i \in 1..Len(log) : log[i].status = 403) =>
        /\ pc = "exit"
        /\ exit_code = 1
        /\ "RateLimit" \in Range(stderr)

AllFull(ps) == \A i \in 1..Len(ps) : Len(ps[i]) = per_page

\* the last page is short and every page before it is full
ShortPageLast(ps) ==
    /\ ps # <<>>
    /\ Len(LastOf(ps)) < per_page
    /\ AllFull(SubSeq(ps, 1, Len(ps) - 1))

RECURSIVE SumLen(_)
SumLen(ps) == IF ps = <<>> THEN 0 ELSE Len(Head(ps)) + SumLen(Tail(ps))

\* a loop has been left by a break (not by the end of the process)
CommitsLoopLeft ==
    /\ pc # "commits_page"
    /\ EndpointLog("commits") # <<>>
    /\ LastOf(EndpointLog("commits")).status = OK

StarredLoopLeft ==
    /\ pc # "starred_page"
    /\ EndpointLog("starred") # <<>>
    /\ LastOf(EndpointLog("starred")).status = OK

PRLoopLeft == pc # "prs_page" /\ EndpointLog("pulls") # <<>>

PRLoopFailed == PRLoopLeft /\ LastOf(EndpointLog("pulls")).status # OK

\* what holds of the commits loop and of the starred loop
C6_ExitingLoops ==
    /\ pc = "commits_page" => AllFull(pages.commits)
    /\ CommitsLoopLeft => ShortPageLast(pages.commits)
    /\ prog = "repo_prs" =>
          /\ commits = CommitRecords(Flatten(pages.commits))
          /\ Len(commits) = SumLen(pages.commits)
    /\ pc = "starred_page" => AllFull(pages.starred)
    /\ StarredLoopLeft => ShortPageLast(pages.starred)
    /\ prog = "starred_repos" =>
          /\ repos = RepoRecords(Flatten(pages.starred))
          /\ Len(repos) = SumLen(pages.starred)

\* what holds of the pull-requests loop whatever ends it
C6_PRAccumulation ==
    /\ pc = "prs_page" => AllFull(pages.prs)
    /\ prs = Flatten(pages.prs)
    /\ Len(prs) = SumLen(pages.prs)

\* C6 as stated: each of the three loops ends exactly on a page shorter than
\* 100 items, and the accumulated list is the fetched pages in page order.
C6_EndsOnlyOnShortPage ==
    /\ C6_ExitingLoops
    /\ C6_PRAccumulation
    /\ PRLoopLeft => ShortPageLast(pages.prs)

\* C6 amended: the commits loop and the starred loop end exactly on a page
\* shorter than 100 items; the pull-requests loop ends on such a page or on
\* a failed page request, all pages before being full; in all three the
\* accumulated list is the fetched pages in page order.
C6_EndsOnShortPageOrPRFailure ==
    /\ C6_ExitingLoops
    /\ C6_PRAccumulation
    /\ PRLoopLeft =>
          \/ ~PRLoopFailed /\ ShortPageLast(pages.prs)
          \/ PRLoopFailed /\ AllFull(pages.prs)

\* a run whose commits loop ended on the short second page and whose
\* pull-requests loop was ended by a failed request after one full page
C6_Witness ==
    /\ pc = "pr_commits"
    /\ Len(pages.commits) = 2
    /\ Len(commits) = per_page + 1
    /\ PRLoopFailed
    /\ Len(prs) = per_page

OnlySinceCommit == prog = "repo_prs" /\ cli.since_date = None /\ cli.since_commit # None

\* C7: with a since-commit and no date, the lookup is the first request and
\* the only lookup, and every commits listing request sends the committer
\* date it answered as since (no since when it answered no date).
C7_SinceIsCommitterDate ==
    (OnlySinceCommit /\ EndpointLog("commits") # <<>>) =>
        /\ Len(EndpointLog("commit")) = 1
        /\ log[1].endpoint = "commit"
        /\ log[1].status = OK
        /\ \A i \in 1..Len(log) :
              log[i].endpoint = "commits" => log[i].since = log[1].date

\* a run that resolved the commit to a date and asked for two listing pages
C7_Witness ==
    /\ OnlySinceCommit
    /\ Len(EndpointLog("commits")) = 2
    /\ log[1].date # None
    /\ LastOf(EndpointLog("commits")).since = log[1].date

\* C8 as stated: started with only --since-commit, the printed record's
\* since_date is the committer date the commit was resolved to.
C8_SinceDateIsResolved ==
    (OnlySinceCommit /\ pc = "done") => stdout[1].since_date = log[1].date

\* C8 amended: the printed record's since_date is the --since-date argument
\* in ISO-8601 form, and null when the run was started with only
\* --since-commit; since_commit is the argument as given.
C8_SinceDateIsArgument ==
    (prog = "repo_prs" /\ pc = "done") =>
        /\ Len(stdout) = 1
        /\ cli.since_date = None => stdout[1].since_date = None
        /\ cli.since_date = Some("2024-01-15") =>
              stdout[1].since_date = Some("2024-01-15T00:00:00")
        /\ stdout[1].since_commit = cli.since_commit

\* a run started with only --since-commit that resolved it to a date,
\* found commits and printed null as since_date
C8_Witness ==
    /\ OnlySinceCommit
    /\ pc = "done"
    /\ log[1].date # None
    /\ stdout[1].total_commits > 0
    /\ stdout[1].since_date = None

IsPRRequest(r) == r.endpoint \in {"pulls", "pr_commits"}

\* C9: when the commits fetch returns no commit, the run prints the record
\* with zero totals and empty lists and sends no pull-request request.
C9_NoCommitsNoPRs ==
    (prog = "repo_prs" /\ CommitsLoopLeft /\ commits = <<>>) =>
        /\ \A i \in 1..Len(log) : ~IsPRRequest(log[i])
        /\ pc # "commits_returned" =>
              /\ pc = "done"
              /\ Len(stdout) = 1
              /\ stdout[1].total_commits = 0
              /\ stdout[1].total_prs = 0
              /\ stdout[1].commits = <<>>
              /\ stdout[1].pull_requests = <<>>

\* a finished run that found no commit although pull requests were asked for
C9_Witness ==
    /\ prog = "repo_prs"
    /\ cli.include_prs
    /\ pc = "done"
    /\ CommitsLoopLeft
    /\ commits = <<>>
    /\ Len(stdout) = 1

PRPhaseFailure == \E i \in 1..Len(log) : IsPRRequest(log[i]) /\ log[i].status # OK

InMap(n) == \E k \in 1..Len(pr_commits_map) : pr_commits_map[k].key = n

\* C10: a failed listing page keeps the pull requests of the pages before
\* it, a failed commits request of a pull request leaves out that pull
\* request only, and after either failure the run ends printing the record.
C10_PRFailuresNotFatal ==
    /\ PRLoopFailed => prs = Flatten(pages.prs)
    /\ PRLoopLeft =>
          \A i \in 1..(pr_idx - 1) :
              InMap(prs[i].number) <=>
                  /\ gh_prs[prs[i].number].status = OK
                  /\ PRShas(prs[i].number) \cap CommitShas # {}
    /\ (prog = "repo_prs" /\ PRPhaseFailure /\ pc \in {"done", "exit"}) =>
          /\ pc = "done"
          /\ Len(stdout) = 1

====
